---- MODULE Spec2Model ----
(***************************************************************************)
(* Route Finder (deanerfree/route-finder): the tap-to-select state machine *)
(* of App.tsx, its press-and-hold gesture, the directions request and the  *)
(* instruction-simplification loop of handleSubmit, and reqRigList of     *)
(* index.ts.                                                               *)
(*                                                                         *)
(* Text is a sequence of one-character strings.  Angles are integers in    *)
(* units of 1e-7 degree, so that toFixed(6) really rounds.  Distances are  *)
(* integers in meters.                                                     *)
(***************************************************************************)
EXTENDS Integers, Sequences, FiniteSets, TLC

\* JavaScript null / a cleared ref.
Null == [null |-> TRUE]

(***************************************************************************)
(* Text helpers: String.prototype.toLowerCase, includes, trim.             *)
(***************************************************************************)
UpperToLower ==
    "A" :> "a" @@ "B" :> "b" @@ "C" :> "c" @@ "D" :> "d" @@ "E" :> "e" @@
    "F" :> "f" @@ "G" :> "g" @@ "H" :> "h" @@ "I" :> "i" @@ "J" :> "j" @@
    "K" :> "k" @@ "L" :> "l" @@ "M" :> "m" @@ "N" :> "n" @@ "O" :> "o" @@
    "P" :> "p" @@ "Q" :> "q" @@ "R" :> "r" @@ "S" :> "s" @@ "T" :> "t" @@
    "U" :> "u" @@ "V" :> "v" @@ "W" :> "w" @@ "X" :> "x" @@ "Y" :> "y" @@
    "Z" :> "z"

LowerChar(c) == IF c \in DOMAIN UpperToLower THEN UpperToLower[c] ELSE c

\* step.maneuver.instruction.toLowerCase()
ToLowerCase(s) == [i \in 1..Len(s) |-> LowerChar(s[i])]

\* the literal lit occurs in s at position i
StartsWithAt(s, i, lit) ==
    /\ i >= 1
    /\ i + Len(lit) - 1 <= Len(s)
    /\ \A k \in 1..Len(lit) : s[i + k - 1] = lit[k]

\* instruction.includes(lit)
Includes(s, lit) == \E i \in 1..(Len(s) + 1) : StartsWithAt(s, i, lit)

\* the regular expression's \s
IsSpace(c) == c \in {" ", "\t", "\n", "\r"}

\* the characters the regular expression's unescaped . does not match
IsLineTerminator(c) == c \in {"\n", "\r"}

RECURSIVE TrimStart(_)
TrimStart(s) ==
    IF s # <<>> /\ IsSpace(Head(s)) THEN TrimStart(Tail(s)) ELSE s

RECURSIVE TrimEnd(_)
TrimEnd(s) ==
    IF s # <<>> /\ IsSpace(s[Len(s)]) THEN TrimEnd(SubSeq(s, 1, Len(s) - 1)) ELSE s

\* roadMatch[1].trim()
Trim(s) == TrimEnd(TrimStart(s))

(***************************************************************************)
(* The regular expression of the simplification loop,                      *)
(*     /(?:on|onto|along)\s+([^,.]+?)(?:\s|$|,|.)/i                          *)
(* as a backtracking matcher: alternatives in order, \s+ greedy, the group *)
(* lazy, the leftmost start position wins.                                 *)
(***************************************************************************)
Prepositions == << <<"o","n">>, <<"o","n","t","o">>, <<"a","l","o","n","g">> >>

\* a literal of the pattern at position i, letter case ignored (flag i)
LiteralAt(s, i, lit) ==
    /\ i + Len(lit) - 1 <= Len(s)
    /\ \A k \in 1..Len(lit) : LowerChar(s[i + k - 1]) = lit[k]

\* [^,.]
IsNameChar(c) == c \notin {",", "."}

\* (?:\s|$|,|.) at position p: the last alternative is an unescaped dot
MatchTerminator(s, p) ==
    \/ p = Len(s) + 1
    \/ /\ p <= Len(s)
       /\ \/ IsSpace(s[p])
          \/ s[p] = ","
          \/ ~IsLineTerminator(s[p])

\* ([^,.]+?) from position p, trying g characters first and then more:
\* the length captured, or 0 when the group cannot match here
RECURSIVE LazyGroup(_, _, _)
LazyGroup(s, p, g) ==
    IF p + g - 1 > Len(s) \/ ~IsNameChar(s[p + g - 1]) THEN 0
    ELSE IF MatchTerminator(s, p + g) THEN g
    ELSE LazyGroup(s, p, g + 1)

\* the number of \s characters of s from position j on
RECURSIVE SpaceRun(_, _)
SpaceRun(s, j) ==
    IF j <= Len(s) /\ IsSpace(s[j]) THEN 1 + SpaceRun(s, j + 1) ELSE 0

\* \s+([^,.]+?)(...) from position j: \s+ takes as many as it can and gives
\* back one at a time; the result is <<start of group, length of group>>
MatchAfterPreposition(s, j) ==
    LET ws == {w \in 1..SpaceRun(s, j) : LazyGroup(s, j + w, 1) > 0}
    IN  IF ws = {} THEN Null
        ELSE LET w == CHOOSE x \in ws : \A y \in ws : y <= x
             IN  [from |-> j + w, len |-> LazyGroup(s, j + w, 1)]

\* the pattern anchored at position i, alternatives tried in order
MatchAt(s, i) ==
    LET ok == {a \in 1..Len(Prepositions) :
                  /\ LiteralAt(s, i, Prepositions[a])
                  /\ MatchAfterPreposition(s, i + Len(Prepositions[a])) # Null}
    IN  IF ok = {} THEN Null
        ELSE LET a == CHOOSE x \in ok : \A y \in ok : x <= y
             IN  MatchAfterPreposition(s, i + Len(Prepositions[a]))

\* instruction.match(...): null, or the match with its group 1
RoadMatch(s) ==
    LET at == {i \in 1..Len(s) : MatchAt(s, i) # Null}
    IN  IF at = {} THEN Null
        ELSE LET i == CHOOSE x \in at : \A y \in at : x <= y
                 m == MatchAt(s, i)
             IN  [index |-> i, group1 |-> SubSeq(s, m.from, m.from + m.len - 1)]

(***************************************************************************)
(* Significance test and distance formatting.                              *)
(***************************************************************************)
Keywords ==
    { <<"h","i","g","h","w","a","y">>, <<"f","r","e","e","w","a","y">>,
      <<"i","n","t","e","r","s","t","a","t","e">>, <<"i","-">>,
      <<"r","o","u","t","e">>, <<"u","s","-">>, <<"s","r","-">> }

\* step.distance > 1000
SignificantDistance == 1000

\* mutant: the distance test is >=
IsSignificantAtLeast(instruction, distance) ==
    \/ \E kw \in Keywords : Includes(instruction, kw)
    \/ distance >= SignificantDistance

\* mutant: the keyword tests are missing
IsSignificantByDistance(instruction, distance) == distance > SignificantDistance

IsSignificant(instruction, distance) ==
    \/ \E kw \in Keywords : Includes(instruction, kw)
    \/ distance > SignificantDistance

\* (meters * 0.000621371).toFixed(1) + " mi": the decimal string as its
\* integer part, its one fraction digit and its suffix.  tenths is
\* round(meters * 621371 / 10^8), the product split so that it stays in
\* 32 bits: meters * 621371 = (meters * 621) * 1000 + meters * 371.
\* mutant: the fraction is cut, not rounded
FormatMilesTruncated(meters) ==
    LET tenths == (meters * 621 + (meters * 371) \div 1000) \div 100000
    IN  [whole |-> tenths \div 10, frac |-> tenths % 10, unit |-> " mi"]

FormatMiles(meters) ==
    LET tenths == (meters * 621 + (meters * 371 + 50000000) \div 1000) \div 100000
    IN  [whole |-> tenths \div 10, frac |-> tenths % 10, unit |-> " mi"]

DirectRoute == <<"D","i","r","e","c","t"," ","r","o","u","t","e">>

\* mutant: the ordinal is the step's position in the leg
SimplifyStepByPosition(acc, step, pos) ==
    LET instruction == ToLowerCase(step.instruction)
        roadMatch == RoadMatch(instruction)
    IN  IF roadMatch # Null /\ IsSignificant(instruction, step.distance)
        THEN [simplifiedSteps |->
                 Append(acc.simplifiedSteps,
                        [step |-> pos,
                         instruction |-> Trim(roadMatch.group1),
                         distance |-> FormatMiles(step.distance)]),
              stepCounter |-> acc.stepCounter + 1,
              included |-> Append(acc.included, pos)]
        ELSE acc

\* the body of route.legs[0].steps.forEach: acc is
\* [simplifiedSteps, stepCounter, included]; included is the list of the
\* positions of the steps pushed (kept for the properties only)
SimplifyStep(acc, step, pos) ==
    LET instruction == ToLowerCase(step.instruction)
        roadMatch == RoadMatch(instruction)
        isSignificant == IsSignificant(instruction, step.distance)
    IN  IF roadMatch # Null /\ isSignificant
        THEN [simplifiedSteps |->
                 Append(acc.simplifiedSteps,
                        [step |-> acc.stepCounter,
                         instruction |-> Trim(roadMatch.group1),
                         distance |-> FormatMiles(step.distance)]),
              stepCounter |-> acc.stepCounter + 1,
              included |-> Append(acc.included, pos)]
        ELSE acc

\* mutant: the synthetic entry is pushed whatever the list holds
DirectRouteFallbackAlways(list, legDistance) ==
    Append(list, [step |-> Len(list) + 1, instruction |-> DirectRoute,
                  distance |-> FormatMiles(legDistance)])

\* if (simplifiedSteps.length === 0) push the synthetic entry
DirectRouteFallback(list, legDistance) ==
    IF Len(list) = 0
    THEN << [step |-> 1, instruction |-> DirectRoute,
             distance |-> FormatMiles(legDistance)] >>
    ELSE list

RECURSIVE ForEachStep(_, _, _)
ForEachStep(acc, legSteps, pos) ==
    IF pos > Len(legSteps) THEN acc
    ELSE ForEachStep(SimplifyStep(acc, legSteps[pos], pos), legSteps, pos + 1)

\* the list handed to setDirections for a leg
Simplify(leg) ==
    DirectRouteFallback(
        ForEachStep([simplifiedSteps |-> <<>>, stepCounter |-> 1, included |-> <<>>],
                    leg.steps, 1).simplifiedSteps,
        leg.distance)

(***************************************************************************)
(* Sample inputs.                                                          *)
(***************************************************************************)
InstrOntoMain == <<"T","u","r","n"," ","r","i","g","h","t"," ","o","n","t","o"," ","M","a","i","n"," ","S","t">>
InstrOnHighway == <<"C","o","n","t","i","n","u","e"," ","o","n"," ","H","i","g","h","w","a","y"," ","1","0","1">>
InstrHighwayNoPrep == <<"T","a","k","e"," ","H","I","G","H","W","A","Y"," ","1"," ","n","o","r","t","h">>
InstrHeadNorth == <<"H","e","a","d"," ","n","o","r","t","h">>
InstrMergeI5 == <<"M","e","r","g","e"," ","o","n","t","o"," ","I","-","5"," ","N",","," ","k","e","e","p"," ","l","e","f","t">>
InstrOnComma == <<"G","o"," ","o","n"," "," ",","," ","o","k">>
InstrWashington == <<"W","a","s","h","i","n","g","t","o","n"," ","A","v","e">>
InstrAlongRoute == <<"D","r","i","v","e"," ","a","l","o","n","g"," ","R","o","u","t","e"," ","9",".">>
InstrDestination == <<"A","r","r","i","v","e"," ","o","n"," ","t","h","e"," ","r","i","g","h","t">>

\* the maneuver steps the simplification loop is run on: every combination of
\* pattern match, keyword and distance either side of the threshold
MapboxSteps ==
    { [instruction |-> InstrOntoMain, distance |-> 1000],
      [instruction |-> InstrOntoMain, distance |-> 1001],
      [instruction |-> InstrOnHighway, distance |-> 1000],
      [instruction |-> InstrHighwayNoPrep, distance |-> 1001],
      [instruction |-> InstrHeadNorth, distance |-> 1001],
      [instruction |-> InstrOnComma, distance |-> 1001],
      [instruction |-> InstrWashington, distance |-> 1001],
      [instruction |-> InstrAlongRoute, distance |-> 1609] }

LegDistances == {1609}

\* the longest leg the simplification loop is run on
MaxSteps == 3

RECURSIVE SeqsUpTo(_, _)
SeqsUpTo(S, n) ==
    IF n = 0 THEN {<<>>}
    ELSE LET shorter == SeqsUpTo(S, n - 1)
         IN  shorter \cup {Append(q, x) : q \in {r \in shorter : Len(r) = n - 1}, x \in S}

Legs == [steps : SeqsUpTo(MapboxSteps, MaxSteps), distance : LegDistances]

(***************************************************************************)
(* Coordinates and their display.                                          *)
(***************************************************************************)
\* places a press can land on, in 1e-7 degree
Coords ==
    { [lat |-> 535461234, lng |-> -1134937655],
      [lat |-> 510447008, lng |-> -1140718996] }

\* Number.prototype.toFixed(6): the nearest multiple of 1e-6 degree, a tie
\* taking the larger magnitude; the result is in units of 1e-6 degree
ToFixed6(x) == IF x >= 0 THEN (x + 5) \div 10 ELSE -((-x + 5) \div 10)

\* `${coords.lat.toFixed(6)}, ${coords.lng.toFixed(6)}`
FormatCoords(coords) == [lat6 |-> ToFixed6(coords.lat), lng6 |-> ToFixed6(coords.lng)]

\* the empty string of useState('')
EmptyString == [empty |-> TRUE]

\* new mapbox.Marker(...).setLngLat([coords.lng, coords.lat]); getLngLat()
LngLat(coords) == [lng |-> coords.lng, lat |-> coords.lat]

\* window.setTimeout(..., 500)
DwellMs == 500

\* the time one Tick lets pass
TickMs == 250

VARIABLES
    \* React state of App; directions is null or [list |-> the steps shown]
    startLocation, endLocation, directions, userCoords, isLoading,
    loadingLocation, currentStep,
    \* refs
    mapRef, startMarkerRef, endMarkerRef,
    \* the map: markers attached to it and its 'route' source
    mapMarkers, routeSource,
    \* closure variables of the map effect and the browser's pending timeouts
    pressTimer, feedbackMarker, timers,
    \* navigator.geolocation: "unsupported", "pending" or "settled"
    geolocation,
    \* directions requests whose response has not arrived
    pending,
    \* history: the last event handled; the current pointer gesture (whether
    \* the pointer is still down and unmoved, where it landed, for how long,
    \* how many taps it gave, the pending press it replaced, if any);
    \* whether a reset happened with no fetch submitted after it having
    \* succeeded since; the coordinates sent in the request whose response
    \* setDirections last showed
    event, gesture, sinceReset, shownQuery,
    \* the simplification loop run on its own: input leg, loop position,
    \* accumulator and program counter
    leg, pos, simplifiedSteps, stepCounter, included, pc,
    \* one call of reqRigList (index.ts): where it stands, its argument, the
    \* Response of fetch, the promise of response.json(), the promise the
    \* call returned and what console.error was given
    rigPc, url, response, result, returned, console

appVars == <<startLocation, endLocation, directions, userCoords, isLoading,
             loadingLocation, currentStep, mapRef, startMarkerRef, endMarkerRef,
             mapMarkers, routeSource, pressTimer, feedbackMarker, timers,
             geolocation, pending, event, gesture, sinceReset, shownQuery>>

loopVars == <<leg, pos, simplifiedSteps, stepCounter, included, pc>>

rigVars == <<rigPc, url, response, result, returned, console>>

vars == <<appVars, loopVars, rigVars>>

\* an event: its kind, what it carried or found, whether it raised the alert
Event(kind, detail, alert) == [kind |-> kind, detail |-> detail, alert |-> alert]

(***************************************************************************)
(* Initial state: App mounted, the geolocation effect has run.             *)
(***************************************************************************)
AppInit ==
    /\ startLocation = EmptyString
    /\ endLocation = EmptyString
    /\ directions = Null
    /\ userCoords = Null
    /\ isLoading = FALSE
    /\ loadingLocation = TRUE
    /\ currentStep = "start"
    /\ mapRef = Null
    /\ startMarkerRef = Null
    /\ endMarkerRef = Null
    /\ mapMarkers = {}
    /\ routeSource = Null
    /\ pressTimer = Null
    /\ feedbackMarker = Null
    /\ timers = {}
    /\ geolocation \in {"unsupported", "pending"}
    /\ pending = <<>>
    /\ event = Event("mount", Null, FALSE)
    /\ gesture = [down |-> FALSE, at |-> Null, held |-> 0, taps |-> 0,
                  replaced |-> Null]
    /\ sinceReset = FALSE
    /\ shownQuery = Null

LoopIdle ==
    /\ leg = Null
    /\ pos = 0
    /\ simplifiedSteps = <<>>
    /\ stepCounter = 0
    /\ included = <<>>
    /\ pc = "idle"

\* reqRigList has not been called
RigIdle ==
    /\ rigPc = "idle"
    /\ url = Null
    /\ response = Null
    /\ result = Null
    /\ returned = Null
    /\ console = <<>>

Init == AppInit /\ LoopIdle /\ RigIdle

(***************************************************************************)
(* Geolocation callbacks and the map effect.                               *)
(***************************************************************************)
\* the map effect's guard, with the container rendered once loadingLocation
\* is false: a map is created when there is none and userCoords is set
MapAfterEffect(loading, coords) ==
    IF loading # TRUE /\ coords # Null THEN [center |-> LngLat(coords)] ELSE Null

\* getCurrentPosition's success callback, then the re-run of the map effect
GeoSuccess(coords) ==
    /\ geolocation = "pending"
    /\ geolocation' = "settled"
    /\ userCoords' = coords
    /\ loadingLocation' = FALSE
    /\ mapRef' = MapAfterEffect(FALSE, coords)
    /\ event' = Event("geoSuccess", coords, FALSE)
    /\ UNCHANGED <<startLocation, endLocation, directions, isLoading, currentStep,
                   startMarkerRef, endMarkerRef, mapMarkers, routeSource,
                   pressTimer, feedbackMarker, timers, pending, gesture, sinceReset,
                   shownQuery>>
    /\ UNCHANGED <<loopVars, rigVars>>

\* getCurrentPosition's error callback, then the re-run of the map effect
GeoError ==
    /\ geolocation = "pending"
    /\ geolocation' = "settled"
    /\ loadingLocation' = FALSE
    /\ mapRef' = MapAfterEffect(FALSE, userCoords)
    /\ event' = Event("geoError", Null, FALSE)
    /\ UNCHANGED <<startLocation, endLocation, directions, userCoords, isLoading,
                   currentStep, startMarkerRef, endMarkerRef, mapMarkers,
                   routeSource, pressTimer, feedbackMarker, timers, pending,
                   gesture, sinceReset,
                   shownQuery>>
    /\ UNCHANGED <<loopVars, rigVars>>

(***************************************************************************)
(* The press-and-hold gesture.                                             *)
(***************************************************************************)
\* cleanup(): the closure variables, the pending timeouts and the markers
\* on the map after it ran on the given ones
\* mutant: cleanup forgets feedbackMarker.remove()
CleanupKeepsFeedback(pt, fm, tm, mk) ==
    [pressTimer |-> Null,
     timers |-> IF pt # Null THEN {t \in tm : t.id # pt} ELSE tm,
     feedbackMarker |-> Null,
     mapMarkers |-> mk]

\* mutant: cleanup forgets clearTimeout
CleanupKeepsTimer(pt, fm, tm, mk) ==
    [pressTimer |-> Null,
     timers |-> tm,
     feedbackMarker |-> Null,
     mapMarkers |-> IF fm # Null THEN mk \ {[kind |-> "feedback", at |-> fm]} ELSE mk]

Cleanup(pt, fm, tm, mk) ==
    [pressTimer |-> Null,
     timers |-> IF pt # Null THEN {t \in tm : t.id # pt} ELSE tm,
     feedbackMarker |-> Null,
     mapMarkers |-> IF fm # Null THEN mk \ {[kind |-> "feedback", at |-> fm]} ELSE mk]

\* the mousedown and touchstart handlers
PressStart(kind, lngLat) ==
    /\ mapRef # Null
    /\ LET c == Cleanup(pressTimer, feedbackMarker, timers, mapMarkers)
       IN  /\ feedbackMarker' = lngLat
           /\ mapMarkers' = c.mapMarkers \cup {[kind |-> "feedback", at |-> lngLat]}
           /\ pressTimer' = lngLat
           /\ timers' = c.timers \cup {[id |-> lngLat, remaining |-> DwellMs]}
    /\ event' = Event(kind, lngLat, FALSE)
    /\ gesture' = [down |-> TRUE, at |-> lngLat, held |-> 0, taps |-> 0,
                   replaced |-> pressTimer]
    /\ UNCHANGED <<startLocation, endLocation, directions, userCoords, isLoading,
                   loadingLocation, currentStep, mapRef, startMarkerRef,
                   endMarkerRef, routeSource, geolocation, pending, sinceReset,
                   shownQuery>>
    /\ UNCHANGED <<loopVars, rigVars>>

MouseDown == \E lngLat \in Coords : PressStart("mousedown", lngLat)

TouchStart == \E lngLat \in Coords : PressStart("touchstart", lngLat)

\* the mouseup, dragstart, touchend and touchmove handlers: cleanup alone
PressCancel(kind) ==
    /\ mapRef # Null
    /\ LET c == Cleanup(pressTimer, feedbackMarker, timers, mapMarkers)
       IN  /\ feedbackMarker' = c.feedbackMarker
           /\ mapMarkers' = c.mapMarkers
           /\ pressTimer' = c.pressTimer
           /\ timers' = c.timers
    /\ event' = Event(kind, Null, FALSE)
    /\ gesture' = [gesture EXCEPT !.down = FALSE]
    /\ UNCHANGED <<startLocation, endLocation, directions, userCoords, isLoading,
                   loadingLocation, currentStep, mapRef, startMarkerRef,
                   endMarkerRef, routeSource, geolocation, pending, sinceReset,
                   shownQuery>>
    /\ UNCHANGED <<loopVars, rigVars>>

MouseUp == PressCancel("mouseup")

DragStart == PressCancel("dragstart")

TouchEnd == PressCancel("touchend")

TouchMove == PressCancel("touchmove")

\* time passes while a timeout is pending
Tick ==
    /\ \E t \in timers : t.remaining > 0
    /\ timers' = {[t EXCEPT !.remaining = IF t.remaining > TickMs
                                          THEN t.remaining - TickMs ELSE 0] :
                  t \in timers}
    /\ gesture' = [gesture EXCEPT !.held = IF gesture.down /\ gesture.held < DwellMs
                                           THEN gesture.held + TickMs
                                           ELSE gesture.held]
    /\ event' = Event("tick", Null, FALSE)
    /\ UNCHANGED <<startLocation, endLocation, directions, userCoords, isLoading,
                   loadingLocation, currentStep, mapRef, startMarkerRef,
                   endMarkerRef, mapMarkers, routeSource, pressTimer,
                   feedbackMarker, geolocation, pending, sinceReset,
                   shownQuery>>
    /\ UNCHANGED <<loopVars, rigVars>>

\* what handleMapClick leaves when it changes nothing
TapIgnored(mk) ==
    [currentStep |-> currentStep, startLocation |-> startLocation,
     endLocation |-> endLocation, startMarkerRef |-> startMarkerRef,
     endMarkerRef |-> endMarkerRef, mapMarkers |-> mk]

\* the branch prevStep === 'start'
TapStart(coords, mk) ==
    [currentStep |-> "end",
     startLocation |-> FormatCoords(coords),
     endLocation |-> endLocation,
     startMarkerRef |-> LngLat(coords),
     endMarkerRef |-> endMarkerRef,
     mapMarkers |->
         (IF startMarkerRef # Null
          THEN mk \ {[kind |-> "start", at |-> startMarkerRef]} ELSE mk)
         \cup {[kind |-> "start", at |-> LngLat(coords)]}]

\* the branch prevStep === 'end'
TapEnd(coords, mk) ==
    [currentStep |-> "complete",
     startLocation |-> startLocation,
     endLocation |-> FormatCoords(coords),
     startMarkerRef |-> startMarkerRef,
     endMarkerRef |-> LngLat(coords),
     mapMarkers |->
         (IF endMarkerRef # Null
          THEN mk \ {[kind |-> "end", at |-> endMarkerRef]} ELSE mk)
         \cup {[kind |-> "end", at |-> LngLat(coords)]}]

\* mutant: a tap while 'complete' starts a new selection
HandleMapClickWraps(coords, mk) ==
    IF mapRef = Null THEN TapIgnored(mk)
    ELSE IF currentStep = "end" THEN TapEnd(coords, mk)
    ELSE TapStart(coords, mk)

\* mutant: a tap while 'complete' moves the destination
HandleMapClickRetap(coords, mk) ==
    IF mapRef = Null THEN TapIgnored(mk)
    ELSE IF currentStep = "start" THEN TapStart(coords, mk)
    ELSE TapEnd(coords, mk)

\* handleMapClick(coords): the new currentStep, texts, refs and map markers
HandleMapClick(coords, mk) ==
    IF mapRef = Null THEN TapIgnored(mk)
    ELSE IF currentStep = "start" THEN TapStart(coords, mk)
    ELSE IF currentStep = "end" THEN TapEnd(coords, mk)
    ELSE TapIgnored(mk)

\* a pending timeout expires: handleMapClick, then cleanup
TimerFire ==
    \E t \in timers :
        /\ t.remaining = 0
        /\ LET h == HandleMapClick(t.id, mapMarkers)
               c == Cleanup(pressTimer, feedbackMarker, timers \ {t}, h.mapMarkers)
           IN  /\ currentStep' = h.currentStep
               /\ startLocation' = h.startLocation
               /\ endLocation' = h.endLocation
               /\ startMarkerRef' = h.startMarkerRef
               /\ endMarkerRef' = h.endMarkerRef
               /\ mapMarkers' = c.mapMarkers
               /\ feedbackMarker' = c.feedbackMarker
               /\ pressTimer' = c.pressTimer
               /\ timers' = c.timers
        /\ event' = Event("tap", t.id, FALSE)
        /\ gesture' = [gesture EXCEPT !.taps = IF gesture.taps < 2
                                               THEN gesture.taps + 1 ELSE 2]
        /\ UNCHANGED <<directions, userCoords, isLoading, loadingLocation, mapRef,
                       routeSource, geolocation, pending, sinceReset,
                   shownQuery>>
        /\ UNCHANGED <<loopVars, rigVars>>

(***************************************************************************)
(* The directions request.                                                 *)
(***************************************************************************)
\* the most requests the model lets wait for a response at once
MaxPending == 2

\* mutant: the early return looks at the origin alone
SubmitGuardStartOnly ==
    /\ startLocation # EmptyString
    /\ startMarkerRef # Null

\* mutant: the button is disabled by the selection state alone
SubmitEnabledIgnoresLoading == currentStep = "complete"

\* the submit button is not disabled
SubmitEnabled == ~(isLoading \/ currentStep # "complete")

\* the early return of handleSubmit
SubmitGuard ==
    /\ startLocation # EmptyString
    /\ endLocation # EmptyString
    /\ startMarkerRef # Null
    /\ endMarkerRef # Null

\* handleSubmit up to its await; the request remembers what was shown when
\* it was sent, until a reset makes it stale
HandleSubmit ==
    /\ Len(pending) < MaxPending
    /\ IF SubmitGuard
       THEN /\ isLoading' = TRUE
            /\ pending' = Append(pending, [start |-> startMarkerRef,
                                           end |-> endMarkerRef,
                                           stale |-> FALSE,
                                           atSubmit |-> [directions |-> directions,
                                                         routeSource |-> routeSource]])
            /\ event' = Event("submit", Null, FALSE)
       ELSE /\ event' = Event("submitIgnored", Null, FALSE)
            /\ UNCHANGED <<isLoading, pending>>
    /\ UNCHANGED <<startLocation, endLocation, directions, userCoords,
                   loadingLocation, currentStep, mapRef, startMarkerRef,
                   endMarkerRef, mapMarkers, routeSource, pressTimer,
                   feedbackMarker, timers, geolocation, gesture, sinceReset,
                   shownQuery>>
    /\ UNCHANGED <<loopVars, rigVars>>

\* the form's submit event raised by the submit button
Submit == SubmitEnabled /\ HandleSubmit

\* the form's submit event raised while the button is disabled for an
\* incomplete selection (form.requestSubmit(), a dispatched event)
RequestSubmit == currentStep # "complete" /\ HandleSubmit

Remove(q, i) == SubSeq(q, 1, i - 1) \o SubSeq(q, i + 1, Len(q))

\* legs a response may carry
ResponseLegs ==
    { [steps |-> << [instruction |-> InstrOnHighway, distance |-> 1001],
                    [instruction |-> InstrHeadNorth, distance |-> 0],
                    [instruction |-> InstrMergeI5, distance |-> 1000] >>,
       distance |-> 25000],
      [steps |-> << [instruction |-> InstrDestination, distance |-> 0] >>,
       distance |-> 1609] }

\* drawRoute(coordinates): the map's 'route' source afterwards
DrawRoute(coordinates) ==
    IF mapRef = Null THEN routeSource ELSE [coordinates |-> coordinates]

\* the request that settles
Settled(i) == pending[i]

\* a response with a success status and a route: the rest of the try block
FetchSuccess ==
    \E i \in 1..Len(pending), route \in ResponseLegs :
        /\ directions' = [list |-> Simplify(route)]
        /\ routeSource' = DrawRoute(<<pending[i].start, pending[i].end>>)
        /\ isLoading' = FALSE
        /\ pending' = Remove(pending, i)
        /\ sinceReset' = IF pending[i].stale THEN sinceReset ELSE FALSE
        /\ shownQuery' = [start |-> pending[i].start, end |-> pending[i].end]
        /\ event' = Event("fetchSuccess", Settled(i), FALSE)
        /\ UNCHANGED <<startLocation, endLocation, userCoords, loadingLocation,
                       currentStep, mapRef, startMarkerRef, endMarkerRef,
                       mapMarkers, pressTimer, feedbackMarker, timers,
                       geolocation, gesture>>
        /\ UNCHANGED <<loopVars, rigVars>>

\* a response with a success status and a route that has no geometry:
\* setDirections has run when route.geometry.coordinates throws, and the
\* catch block follows
FetchNoGeometry ==
    \E i \in 1..Len(pending), route \in ResponseLegs :
        /\ directions' = [list |-> Simplify(route)]
        /\ isLoading' = FALSE
        /\ pending' = Remove(pending, i)
        /\ sinceReset' = IF pending[i].stale THEN sinceReset ELSE FALSE
        /\ shownQuery' = [start |-> pending[i].start, end |-> pending[i].end]
        /\ event' = Event("fetchNoGeometry", Settled(i), TRUE)
        /\ UNCHANGED <<startLocation, endLocation, userCoords, loadingLocation,
                       currentStep, mapRef, startMarkerRef, endMarkerRef,
                       mapMarkers, routeSource, pressTimer, feedbackMarker,
                       timers, geolocation, gesture>>
        /\ UNCHANGED <<loopVars, rigVars>>

\* mutant: an empty routes array clears what is shown
FetchNoRoutesClears ==
    \E i \in 1..Len(pending) :
        /\ isLoading' = FALSE
        /\ pending' = Remove(pending, i)
        /\ directions' = Null
        /\ routeSource' = Null
        /\ event' = Event("fetchNoRoutes", Settled(i), FALSE)
        /\ UNCHANGED <<startLocation, endLocation, userCoords,
                       loadingLocation, currentStep, mapRef, startMarkerRef,
                       endMarkerRef, mapMarkers, pressTimer,
                       feedbackMarker, timers, geolocation, gesture, sinceReset,
                       shownQuery>>
        /\ UNCHANGED <<loopVars, rigVars>>

\* a response with a success status and no route
FetchNoRoutes ==
    \E i \in 1..Len(pending) :
        /\ isLoading' = FALSE
        /\ pending' = Remove(pending, i)
        /\ event' = Event("fetchNoRoutes", Settled(i), FALSE)
        /\ UNCHANGED <<startLocation, endLocation, directions, userCoords,
                       loadingLocation, currentStep, mapRef, startMarkerRef,
                       endMarkerRef, mapMarkers, routeSource, pressTimer,
                       feedbackMarker, timers, geolocation, gesture, sinceReset,
                       shownQuery>>
        /\ UNCHANGED <<loopVars, rigVars>>

\* what sends handleSubmit to its catch block before setDirections: a
\* non-success status, a rejected fetch, a body without legs
FailureCauses == {"httpStatus", "network", "noLegs"}

\* mutant: the catch block forgets setIsLoading(false)
FetchFailsKeepsLoading ==
    \E i \in 1..Len(pending), cause \in FailureCauses :
        /\ pending' = Remove(pending, i)
        /\ event' = Event(cause, Settled(i), TRUE)
        /\ UNCHANGED <<startLocation, endLocation, directions, userCoords,
                       isLoading, loadingLocation, currentStep, mapRef,
                       startMarkerRef, endMarkerRef, mapMarkers, routeSource,
                       pressTimer, feedbackMarker, timers, geolocation, gesture,
                       sinceReset, shownQuery>>
        /\ UNCHANGED <<loopVars, rigVars>>

FetchFails ==
    \E i \in 1..Len(pending), cause \in FailureCauses :
        /\ isLoading' = FALSE
        /\ pending' = Remove(pending, i)
        /\ event' = Event(cause, Settled(i), TRUE)
        /\ UNCHANGED <<startLocation, endLocation, directions, userCoords,
                       loadingLocation, currentStep, mapRef, startMarkerRef,
                       endMarkerRef, mapMarkers, routeSource, pressTimer,
                       feedbackMarker, timers, geolocation, gesture, sinceReset,
                       shownQuery>>
        /\ UNCHANGED <<loopVars, rigVars>>

(***************************************************************************)
(* The links to the external map applications.                             *)
(***************************************************************************)
\* the share buttons are rendered
ShareButtonsShown == directions # Null /\ ~isLoading

\* what no click on a share button changes
ShareFrame ==
    /\ UNCHANGED <<startLocation, endLocation, directions, userCoords, isLoading,
                   loadingLocation, currentStep, mapRef, startMarkerRef,
                   endMarkerRef, mapMarkers, routeSource, pressTimer,
                   feedbackMarker, timers, geolocation, pending, gesture,
                   sinceReset, shownQuery>>
    /\ UNCHANGED <<loopVars, rigVars>>

\* openInGoogleMaps: the url given to window.open
OpenInGoogleMaps ==
    /\ ShareButtonsShown
    /\ IF startMarkerRef = Null \/ endMarkerRef = Null
       THEN event' = Event("openIgnored", Null, FALSE)
       ELSE event' = Event("openInGoogleMaps",
                           [origin |-> [lat |-> startMarkerRef.lat,
                                        lng |-> startMarkerRef.lng],
                            destination |-> [lat |-> endMarkerRef.lat,
                                             lng |-> endMarkerRef.lng],
                            travelmode |-> "driving"],
                           FALSE)
    /\ ShareFrame

\* openInAppleMaps: the url given to window.open
OpenInAppleMaps ==
    /\ ShareButtonsShown
    /\ IF startMarkerRef = Null \/ endMarkerRef = Null
       THEN event' = Event("openIgnored", Null, FALSE)
       ELSE event' = Event("openInAppleMaps",
                           [saddr |-> [lat |-> startMarkerRef.lat,
                                       lng |-> startMarkerRef.lng],
                            daddr |-> [lat |-> endMarkerRef.lat,
                                       lng |-> endMarkerRef.lng],
                            dirflg |-> "d"],
                           FALSE)
    /\ ShareFrame

(***************************************************************************)
(* Reset.                                                                  *)
(***************************************************************************)
\* mutant: resetSelection forgets startMarkerRef.current = null
ResetKeepsOriginMarker ==
    [currentStep |-> "start", startLocation |-> EmptyString,
     endLocation |-> EmptyString, directions |-> Null,
     startMarkerRef |-> startMarkerRef, endMarkerRef |-> Null,
     mapMarkers |-> {m \in mapMarkers : m.kind = "feedback"},
     routeSource |-> IF mapRef # Null /\ routeSource # Null THEN Null ELSE routeSource]

\* mutant: resetSelection leaves the drawn route
ResetKeepsRoute ==
    [currentStep |-> "start", startLocation |-> EmptyString,
     endLocation |-> EmptyString, directions |-> Null,
     startMarkerRef |-> Null, endMarkerRef |-> Null,
     mapMarkers |-> {m \in mapMarkers : m.kind = "feedback"},
     routeSource |-> routeSource]

\* resetSelection: the state, texts, directions, refs, markers and route
ResetSelection ==
    [currentStep |-> "start",
     startLocation |-> EmptyString,
     endLocation |-> EmptyString,
     directions |-> Null,
     startMarkerRef |-> Null,
     endMarkerRef |-> Null,
     mapMarkers |->
         (mapMarkers
            \ (IF startMarkerRef # Null
               THEN {[kind |-> "start", at |-> startMarkerRef]} ELSE {}))
            \ (IF endMarkerRef # Null
               THEN {[kind |-> "end", at |-> endMarkerRef]} ELSE {}),
     routeSource |-> IF mapRef # Null /\ routeSource # Null THEN Null ELSE routeSource]

\* the reset button, never disabled
Reset ==
    /\ LET r == ResetSelection
       IN  /\ currentStep' = r.currentStep
           /\ startLocation' = r.startLocation
           /\ endLocation' = r.endLocation
           /\ directions' = r.directions
           /\ startMarkerRef' = r.startMarkerRef
           /\ endMarkerRef' = r.endMarkerRef
           /\ mapMarkers' = r.mapMarkers
           /\ routeSource' = r.routeSource
    /\ pending' = [i \in 1..Len(pending) |->
                       [pending[i] EXCEPT !.stale = TRUE, !.atSubmit = Null]]
    /\ sinceReset' = TRUE
    /\ shownQuery' = Null
    /\ event' = Event("reset",
                       [currentStep |-> currentStep, directions |-> directions,
                        routeSource |-> routeSource],
                       FALSE)
    /\ UNCHANGED <<userCoords, isLoading, loadingLocation, mapRef, pressTimer,
                   feedbackMarker, timers, geolocation, gesture>>
    /\ UNCHANGED <<loopVars, rigVars>>

Next ==
    \/ \E coords \in Coords : GeoSuccess(coords)
    \/ GeoError
    \/ MouseDown
    \/ TouchStart
    \/ MouseUp
    \/ DragStart
    \/ TouchEnd
    \/ TouchMove
    \/ Tick
    \/ TimerFire
    \/ Submit
    \/ FetchSuccess
    \/ FetchNoRoutes
    \/ FetchNoGeometry
    \/ FetchFails
    \/ OpenInGoogleMaps
    \/ OpenInAppleMaps
    \/ Reset

Spec == Init /\ [][Next]_vars

\* the submit event may also come without the button
HandlerNext == Next \/ RequestSubmit

HandlerSpec == Init /\ [][HandlerNext]_vars

(***************************************************************************)
(* The simplification loop of handleSubmit, one iteration at a time, on    *)
(* every leg of at most MaxSteps sample steps.                             *)
(***************************************************************************)
SimplifyInit ==
    /\ AppInit
    /\ RigIdle
    /\ geolocation = "pending"
    /\ leg \in Legs
    /\ pos = 1
    /\ simplifiedSteps = <<>>
    /\ stepCounter = 1
    /\ included = <<>>
    /\ pc = "forEach"

\* one call of the forEach callback
ForEachIteration ==
    /\ pc = "forEach"
    /\ pos <= Len(leg.steps)
    /\ LET acc == SimplifyStep([simplifiedSteps |-> simplifiedSteps,
                                stepCounter |-> stepCounter,
                                included |-> included],
                               leg.steps[pos], pos)
       IN  /\ simplifiedSteps' = acc.simplifiedSteps
           /\ stepCounter' = acc.stepCounter
           /\ included' = acc.included
    /\ pos' = pos + 1
    /\ UNCHANGED <<leg, pc>>
    /\ UNCHANGED <<appVars, rigVars>>

\* after the loop: the fallback entry, then setDirections(simplifiedSteps)
AfterForEach ==
    /\ pc = "forEach"
    /\ pos > Len(leg.steps)
    /\ simplifiedSteps' = DirectRouteFallback(simplifiedSteps, leg.distance)
    /\ pc' = "done"
    /\ UNCHANGED <<leg, pos, stepCounter, included>>
    /\ UNCHANGED <<appVars, rigVars>>

SimplifyNext == ForEachIteration \/ AfterForEach

SimplifySpec == SimplifyInit /\ [][SimplifyNext]_vars

(***************************************************************************)
(* Properties of the selection state machine (under Spec).                 *)
(***************************************************************************)
StepAfter == "start" :> "end" @@ "end" :> "complete"

CancelKinds == {"mouseup", "dragstart", "touchend", "touchmove"}

\* the start and end markers attached to the map
SelectionMarkers(mk) == {m \in mk : m.kind \in {"start", "end"}}

\* the text shows the coordinate c to six decimals
ShowsCoordinate(text, c) ==
    /\ text # EmptyString
    /\ 10 * text.lat6 - c.lat \in -5..5
    /\ 10 * text.lng6 - c.lng \in -5..5

\* the marker stands at the coordinate c
MarksCoordinate(marker, c) ==
    /\ marker # Null
    /\ marker.lat = c.lat
    /\ marker.lng = c.lng

\* C1: currentStep changes only start -> end or end -> complete on a confirmed
\* tap, one step per tap, and anything -> start on reset; no other event
\* changes it.
C1_SelectionMovesByTapOrReset ==
    [][ /\ currentStep' # currentStep =>
              \/ /\ event'.kind = "tap"
                 /\ currentStep # "complete"
                 /\ currentStep' = StepAfter[currentStep]
              \/ /\ event'.kind = "reset"
                 /\ currentStep' = "start"
        /\ (event'.kind = "tap" /\ currentStep # "complete") =>
              currentStep' = StepAfter[currentStep]
        /\ event'.kind = "reset" => currentStep' = "start"
      ]_vars

\* C1 witness: after a reset, two confirmed taps have led to 'complete'.
C1_Witness ==
    /\ event.kind = "tap"
    /\ currentStep = "complete"
    /\ sinceReset

\* C2: a confirmed tap in 'start' records the pressed coordinate as origin and
\* leaves the destination alone; in 'end' it records it as destination and
\* leaves the origin alone; in 'complete' it leaves the state, both texts,
\* both markers, the directions and the loading flag alone; and a recorded
\* origin or destination changes only by reset.
C2_TapRecordsOneCoordinate ==
    [][ /\ (event'.kind = "tap" /\ currentStep = "start") =>
              /\ MarksCoordinate(startMarkerRef', gesture.at)
              /\ ShowsCoordinate(startLocation', gesture.at)
              /\ [kind |-> "start", at |-> startMarkerRef'] \in mapMarkers'
              /\ UNCHANGED <<endLocation, endMarkerRef>>
        /\ (event'.kind = "tap" /\ currentStep = "end") =>
              /\ MarksCoordinate(endMarkerRef', gesture.at)
              /\ ShowsCoordinate(endLocation', gesture.at)
              /\ [kind |-> "end", at |-> endMarkerRef'] \in mapMarkers'
              /\ UNCHANGED <<startLocation, startMarkerRef>>
        /\ (event'.kind = "tap" /\ currentStep = "complete") =>
              /\ UNCHANGED <<currentStep, startLocation, endLocation,
                             startMarkerRef, endMarkerRef, directions, isLoading>>
              /\ SelectionMarkers(mapMarkers') = SelectionMarkers(mapMarkers)
        /\ (startMarkerRef # Null /\ event'.kind # "reset") =>
              UNCHANGED <<startMarkerRef, startLocation>>
        /\ (endMarkerRef # Null /\ event'.kind # "reset") =>
              UNCHANGED <<endMarkerRef, endLocation>>
      ]_vars

\* C2 witness: origin and destination recorded at two different places, the
\* last tap having come while 'complete'.
C2_Witness ==
    /\ event.kind = "tap"
    /\ currentStep = "complete"
    /\ startMarkerRef # Null
    /\ endMarkerRef # Null
    /\ startMarkerRef # endMarkerRef
    /\ event.detail # [lat |-> endMarkerRef.lat, lng |-> endMarkerRef.lng]

\* C3: right after reset the state is 'start', both texts are empty, both
\* markers are gone from the refs and the map, directions is null and the
\* map has no route.
C3_ResetClearsEverything ==
    event.kind = "reset" =>
        /\ currentStep = "start"
        /\ startLocation = EmptyString
        /\ endLocation = EmptyString
        /\ startMarkerRef = Null
        /\ endMarkerRef = Null
        /\ SelectionMarkers(mapMarkers) = {}
        /\ directions = Null
        /\ routeSource = Null

\* C3 witness: reset pressed in 'complete' with directions shown, a route
\* drawn and a new request loading.
C3_Witness ==
    /\ event.kind = "reset"
    /\ event.detail.currentStep = "complete"
    /\ event.detail.directions # Null
    /\ event.detail.routeSource # Null
    /\ isLoading

\* C4: a tap is confirmed only for a press that is still down and unmoved,
\* has been held for the whole dwell and has given no tap yet; a release or
\* a move changes neither the selection state nor the texts nor the markers.
C4_TapNeedsFullDwell ==
    [][ /\ event'.kind = "tap" =>
              /\ gesture.down
              /\ gesture.held >= DwellMs
              /\ gesture.taps = 0
        /\ event'.kind \in CancelKinds =>
              /\ UNCHANGED <<currentStep, startLocation, endLocation,
                             startMarkerRef, endMarkerRef>>
              /\ SelectionMarkers(mapMarkers') = SelectionMarkers(mapMarkers)
              /\ timers' = {}
      ]_vars

\* C4 witness: a press released after part of the dwell; nothing was
\* selected and no timeout is left.
C4_Witness ==
    /\ event.kind \in CancelKinds
    /\ ~gesture.down
    /\ gesture.held > 0
    /\ gesture.held < DwellMs
    /\ gesture.taps = 0
    /\ timers = {}
    /\ currentStep = "start"

\* C5: at most one request waits for its response, and while one does the
\* loading flag is set.
C5_OneRequestInFlight ==
    /\ Len(pending) <= 1
    /\ pending # <<>> => isLoading

\* C5 witness: a request still pending after a reset and two new taps.
C5_Witness ==
    /\ Len(pending) = 1
    /\ pending[1].stale
    /\ currentStep = "complete"
    /\ isLoading

\* C6 (as claimed): after a reset, directions stays null and no route is
\* drawn until a fetch submitted after that reset succeeds.
C6_ClearedUntilFreshFetch ==
    sinceReset => (directions = Null /\ routeSource = Null)

(***************************************************************************)
(* Properties of the simplification loop (under SimplifySpec).             *)
(***************************************************************************)
PatternWords == { <<"o","n">>, <<"o","n","t","o">>, <<"a","l","o","n","g">> }

SignificanceWords ==
    { <<"h","i","g","h","w","a","y">>, <<"f","r","e","e","w","a","y">>,
      <<"i","n","t","e","r","s","t","a","t","e">>, <<"i","-">>,
      <<"r","o","u","t","e">>, <<"u","s","-">>, <<"s","r","-">> }

\* in text (letter case ignored) on, onto or along stands at position i, then
\* w >= 1 whitespace characters, then a character that is no comma or period
PatternAt(text, i, word, w) ==
    LET s == ToLowerCase(text)
        j == i + Len(word)
    IN  /\ StartsWithAt(s, i, word)
        /\ j + w <= Len(s)
        /\ \A k \in j..(j + w - 1) : IsSpace(s[k])
        /\ s[j + w] \notin {",", "."}

MatchesExtractionPattern(text) ==
    \E i \in 1..Len(text), word \in PatternWords, w \in 1..Len(text) :
        PatternAt(text, i, word, w)

\* a significance word occurs in text (letter case ignored) or the step is
\* longer than 1000 m
PassesSignificanceTest(step) ==
    \/ \E word \in SignificanceWords :
          \E i \in 1..Len(step.instruction) :
              StartsWithAt(ToLowerCase(step.instruction), i, word)
    \/ step.distance > 1000

\* the steps of the leg the loop has gone through
Processed == 1..(IF pos - 1 < Len(leg.steps) THEN pos - 1 ELSE Len(leg.steps))

IsIncluded(i) == \E k \in 1..Len(included) : included[k] = i

\* C7: a step is pushed exactly when its instruction matches the extraction
\* pattern and passes the significance test; the pushed steps keep their
\* order, and each output entry carries the distance of the step it stands for.
C7_IncludedIffMatchedAndSignificant ==
    pc \in {"forEach", "done"} =>
        /\ \A i \in Processed :
              IsIncluded(i) <=> /\ MatchesExtractionPattern(leg.steps[i].instruction)
                                /\ PassesSignificanceTest(leg.steps[i])
        /\ \A k \in 1..(Len(included) - 1) : included[k] < included[k + 1]
        /\ (pc = "forEach" \/ included # <<>>) =>
              /\ Len(simplifiedSteps) = Len(included)
              /\ \A k \in 1..Len(included) :
                    simplifiedSteps[k].distance =
                        FormatMiles(leg.steps[included[k]].distance)

\* C7 witness: of three steps the first matches the pattern but has no
\* keyword and is 1000 m long, the second has a keyword but does not match;
\* only the third is in the output.
C7_Witness ==
    /\ pc = "done"
    /\ Len(leg.steps) = 3
    /\ leg.steps[1] = [instruction |-> InstrOntoMain, distance |-> 1000]
    /\ leg.steps[2].instruction = InstrHighwayNoPrep
    /\ included = <<3>>
    /\ Len(simplifiedSteps) = 1

\* the text after the leftmost on/onto/along that is followed by
\* whitespace, up to the next comma, period or end of the text
RECURSIVE NameEnd(_, _)
NameEnd(text, p) ==
    IF p <= Len(text) /\ text[p] \notin {",", "."} THEN NameEnd(text, p + 1) ELSE p - 1

FollowingText(text) ==
    LET s == ToLowerCase(text)
        at == {i \in 1..Len(s) :
                  \E word \in PatternWords :
                      /\ StartsWithAt(s, i, word)
                      /\ i + Len(word) <= Len(s)
                      /\ IsSpace(s[i + Len(word)])}
        i == CHOOSE x \in at : \A y \in at : x <= y
        word == CHOOSE x \in PatternWords :
                    /\ StartsWithAt(s, i, x)
                    /\ i + Len(x) <= Len(s)
                    /\ IsSpace(s[i + Len(x)])
        p == i + Len(word)
    IN  Trim(SubSeq(text, p, NameEnd(text, p)))

\* C8 (as claimed): the road name shown for an included step is the text of
\* its instruction after the preposition up to the next comma, period or end
\* (letter case ignored).
C8_RoadNameIsFollowingText ==
    (pc = "done" /\ included # <<>>) =>
        \A k \in 1..Len(included) :
            ToLowerCase(simplifiedSteps[k].instruction) =
                ToLowerCase(FollowingText(leg.steps[included[k]].instruction))

ContainsHighway(text) ==
    \E i \in 1..Len(text) :
        StartsWithAt(ToLowerCase(text), i, <<"h","i","g","h","w","a","y">>)

\* C9 (as claimed): every step whose instruction contains "highway" in any
\* letter case is in the output, whatever its distance, with an ordinal equal
\* to its position among the included steps.
C9_HighwayAlwaysIncluded ==
    pc = "done" =>
        \A i \in 1..Len(leg.steps) :
            ContainsHighway(leg.steps[i].instruction) =>
                \E k \in 1..Len(included) :
                    /\ included[k] = i
                    /\ k <= Len(simplifiedSteps)
                    /\ simplifiedSteps[k].step = k

\* C9 (amended): every step whose instruction contains "highway" in any
\* letter case and matches the extraction pattern is in the output, whatever
\* its distance, with an ordinal equal to its position among the included
\* steps.
C9_MatchedHighwayIncluded ==
    pc = "done" =>
        \A i \in 1..Len(leg.steps) :
            (/\ ContainsHighway(leg.steps[i].instruction)
             /\ MatchesExtractionPattern(leg.steps[i].instruction)) =>
                \E k \in 1..Len(included) :
                    /\ included[k] = i
                    /\ k <= Len(simplifiedSteps)
                    /\ simplifiedSteps[k].step = k

\* C9 witness: "Continue on Highway 101", 1000 m long, is the last of three
\* steps and the second of the output.
C9_Witness ==
    /\ pc = "done"
    /\ Len(leg.steps) = 3
    /\ leg.steps[3] = [instruction |-> InstrOnHighway, distance |-> 1000]
    /\ included = <<1, 3>>
    /\ simplifiedSteps[2].step = 2

\* C10: the list handed to setDirections is not empty and its ordinals are
\* 1, 2, ..., n in list order.
C10_OrdinalsDense ==
    pc = "done" =>
        /\ Len(simplifiedSteps) >= 1
        /\ \A k \in 1..Len(simplifiedSteps) : simplifiedSteps[k].step = k

\* C10 witness: the first step of the leg was left out and the two after it
\* are numbered 1 and 2.
C10_Witness ==
    /\ pc = "done"
    /\ included = <<2, 3>>
    /\ Len(simplifiedSteps) = 2
    /\ simplifiedSteps[1].step = 1
    /\ simplifiedSteps[2].step = 2

\* the decimal d, as FormatMiles writes it, is meters * 0.000621371 rounded
\* to one decimal (a tie going up) with the suffix " mi":
\* -0.05 <= meters * 0.000621371 - d < 0.05, in units of 1e-9 mile
IsMilesToOneDecimal(d, meters) ==
    LET tenths == 10 * d.whole + d.frac
        diff == (meters * 621 - tenths * 100000) * 1000 + meters * 371
    IN  /\ d.whole >= 0
        /\ d.frac \in 0..9
        /\ d.unit = " mi"
        /\ diff >= -50000000
        /\ diff < 50000000

\* C11: when no step was pushed the list set is the single entry
\* {1, "Direct route", the leg's distance in miles}; when a step was pushed
\* no entry is labelled "Direct route".
C11_DirectRouteOnlyWhenNothingSurvives ==
    pc = "done" =>
        /\ included = <<>> =>
              /\ Len(simplifiedSteps) = 1
              /\ simplifiedSteps[1].step = 1
              /\ simplifiedSteps[1].instruction = DirectRoute
              /\ IsMilesToOneDecimal(simplifiedSteps[1].distance, leg.distance)
        /\ included # <<>> =>
              /\ Len(simplifiedSteps) = Len(included)
              /\ \A k \in 1..Len(simplifiedSteps) :
                    simplifiedSteps[k].instruction # DirectRoute

\* C11 witness: a leg of three steps none of which was pushed ends as the
\* single "Direct route" entry.
C11_Witness ==
    /\ pc = "done"
    /\ Len(leg.steps) = 3
    /\ included = <<>>
    /\ Len(simplifiedSteps) = 1
    /\ simplifiedSteps[1].instruction = DirectRoute

\* the meters behind the k-th entry of simplifiedSteps
SourceMeters(k) ==
    IF included = <<>> THEN leg.distance ELSE leg.steps[included[k]].distance

\* C17: every distance in the list is its meters times 0.000621371 rounded
\* to one decimal, with the suffix " mi"; 1609 m reads "1.0 mi".
C17_DistanceInMilesToOneDecimal ==
    pc \in {"forEach", "done"} =>
        \A k \in 1..Len(simplifiedSteps) :
            /\ IsMilesToOneDecimal(simplifiedSteps[k].distance, SourceMeters(k))
            /\ SourceMeters(k) = 1609 =>
                  simplifiedSteps[k].distance = [whole |-> 1, frac |-> 0, unit |-> " mi"]

\* C17 witness: a pushed step of 1609 m is shown as "1.0 mi", after one of
\* 1001 m shown as "0.6 mi".
C17_Witness ==
    /\ pc = "done"
    /\ Len(included) = 2
    /\ leg.steps[included[1]].distance = 1001
    /\ simplifiedSteps[1].distance = [whole |-> 0, frac |-> 6, unit |-> " mi"]
    /\ leg.steps[included[2]].distance = 1609
    /\ simplifiedSteps[2].distance = [whole |-> 1, frac |-> 0, unit |-> " mi"]

(***************************************************************************)
(* Properties of the directions request and what follows it.               *)
(***************************************************************************)
\* the events with which a request settles
SettleKinds == {"fetchSuccess", "fetchNoRoutes", "fetchNoGeometry"} \cup FailureCauses

\* the origin or destination text or a marker is missing
SelectionMissing ==
    \/ startLocation = EmptyString
    \/ endLocation = EmptyString
    \/ startMarkerRef = Null
    \/ endMarkerRef = Null

\* C12 (as claimed): whenever the failure alert is raised the loading flag is
\* cleared, the request is gone and none is issued in its place, and the
\* directions list and the drawn route are what they were before that step
\* and, unless a reset came in between, what they were when the request was
\* submitted.
C12_FailureLeavesNoPartialResult ==
    [][ event'.alert =>
            /\ ~isLoading'
            /\ Len(pending') = Len(pending) - 1
            /\ directions' = directions
            /\ routeSource' = routeSource
            /\ ~event'.detail.stale =>
                  /\ directions' = event'.detail.atSubmit.directions
                  /\ routeSource' = event'.detail.atSubmit.routeSource
      ]_vars

\* C13: every settling of a request (route returned, no route, non-success
\* status, network failure, exception while the response is processed) leaves
\* the loading flag cleared and nothing pending, and with the selection ready
\* the submit button is then enabled and the handler's guard passes.
C13_LoadingClearsAndReattemptable ==
    event.kind \in SettleKinds =>
        /\ ~isLoading
        /\ pending = <<>>
        /\ currentStep = "complete" =>
              /\ ~(isLoading \/ currentStep # "complete")
              /\ ~SelectionMissing

\* C13 witness: a request has failed on the network, and the selection is
\* still ready with nothing pending and the loading flag down.
C13_Witness ==
    /\ event.kind = "network"
    /\ currentStep = "complete"
    /\ ~isLoading
    /\ pending = <<>>
    /\ ~SelectionMissing

\* C14 (as claimed): when geolocation is unsupported or its request fails,
\* the location-loading state has ended and the map is created once the
\* effects have run.
C14_MapCreatedWithoutGeolocation ==
    (geolocation = "unsupported" \/ (geolocation = "settled" /\ userCoords = Null))
        => (loadingLocation = FALSE /\ mapRef # Null)

\* C15: when handleSubmit runs while the origin or destination text or a
\* marker is missing, it is ignored: no request is issued, the loading flag,
\* the selection state, the texts, the markers, the directions list and the
\* drawn route stay as they are, and no alert is raised.
C15_SubmitWithMissingSelectionIgnored ==
    [][ (event'.kind \in {"submit", "submitIgnored"} /\ SelectionMissing) =>
            /\ event'.kind = "submitIgnored"
            /\ ~event'.alert
            /\ UNCHANGED <<pending, isLoading, currentStep, startLocation,
                           endLocation, startMarkerRef, endMarkerRef,
                           mapMarkers, directions, routeSource>>
      ]_vars

\* C15 witness: a submit event was ignored with the origin recorded, the
\* destination missing and a directions list on display.
C15_Witness ==
    /\ event.kind = "submitIgnored"
    /\ currentStep = "end"
    /\ startMarkerRef # Null
    /\ endMarkerRef = Null
    /\ directions # Null
    /\ ~isLoading
    /\ pending = <<>>

\* C16 (as claimed): whenever a link to an external map application is
\* opened, both markers exist and the link's origin and destination are the
\* coordinates sent in the request that produced the directions on display.
C16_LinkMatchesShownQuery ==
    /\ event.kind = "openInGoogleMaps" =>
          /\ startMarkerRef # Null
          /\ endMarkerRef # Null
          /\ shownQuery # Null
          /\ event.detail.origin = shownQuery.start
          /\ event.detail.destination = shownQuery.end
    /\ event.kind = "openInAppleMaps" =>
          /\ startMarkerRef # Null
          /\ endMarkerRef # Null
          /\ shownQuery # Null
          /\ event.detail.saddr = shownQuery.start
          /\ event.detail.daddr = shownQuery.end

(***************************************************************************)
(* Invariants of the selection and of the press gesture.                   *)
(***************************************************************************)
\* the origin is recorded: its text, its ref and its marker on the map
OriginRecorded ==
    /\ startLocation # EmptyString
    /\ startMarkerRef # Null
    /\ [kind |-> "start", at |-> startMarkerRef] \in mapMarkers

\* nothing of the origin is recorded
OriginAbsent ==
    /\ startLocation = EmptyString
    /\ startMarkerRef = Null
    /\ \A m \in mapMarkers : m.kind # "start"

DestinationRecorded ==
    /\ endLocation # EmptyString
    /\ endMarkerRef # Null
    /\ [kind |-> "end", at |-> endMarkerRef] \in mapMarkers

DestinationAbsent ==
    /\ endLocation = EmptyString
    /\ endMarkerRef = Null
    /\ \A m \in mapMarkers : m.kind # "end"

\* C18: currentStep is 'start' iff neither origin nor destination is
\* recorded, 'end' iff the origin is and the destination is not, 'complete'
\* iff both are (text and marker always together); so whenever the submit
\* button is enabled both markers exist, and the handler never takes its
\* early return.
C18_StepAgreesWithRecorded ==
    /\ OriginRecorded \/ OriginAbsent
    /\ DestinationRecorded \/ DestinationAbsent
    /\ currentStep = "start" <=> (OriginAbsent /\ DestinationAbsent)
    /\ currentStep = "end" <=> (OriginRecorded /\ DestinationAbsent)
    /\ currentStep = "complete" <=> (OriginRecorded /\ DestinationRecorded)
    /\ ~(isLoading \/ currentStep # "complete") => ~SelectionMissing
    /\ event.kind # "submitIgnored"

\* C18 witness: the button was pressed in 'complete' with both markers on the
\* map, after a reset had emptied an earlier selection.
C18_Witness ==
    /\ event.kind = "submit"
    /\ currentStep = "complete"
    /\ OriginRecorded
    /\ DestinationRecorded
    /\ sinceReset

\* the press-feedback markers on the map
FeedbackMarkers == {m \in mapMarkers : m.kind = "feedback"}

\* C19: at most one timeout is pending and at most one feedback marker is on
\* the map; right after a press exactly the new press's timeout (with its
\* full delay) and marker are there; right after the timeout fired or the
\* press was cancelled there is neither.
C19_OnePendingPress ==
    /\ Cardinality(timers) <= 1
    /\ Cardinality(FeedbackMarkers) <= 1
    /\ event.kind \in {"mousedown", "touchstart"} =>
          /\ timers = {[id |-> event.detail, remaining |-> DwellMs]}
          /\ FeedbackMarkers = {[kind |-> "feedback", at |-> event.detail]}
    /\ event.kind \in CancelKinds \cup {"tap"} =>
          /\ timers = {}
          /\ FeedbackMarkers = {}
          /\ pressTimer = Null
          /\ feedbackMarker = Null

\* C19 witness: a touchstart arrived while the press of another place was
\* still pending; only the new press's timeout and marker remain.
C19_Witness ==
    /\ event.kind = "touchstart"
    /\ gesture.replaced # Null
    /\ gesture.replaced # event.detail
    /\ timers = {[id |-> event.detail, remaining |-> DwellMs]}
    /\ Cardinality(FeedbackMarkers) = 1

\* C20: a response with a success status and no route leaves the directions
\* list and the drawn route as they were before that step and, unless a
\* reset came in between, as they were when the request was submitted; no
\* alert is raised and the loading flag is cleared.
C20_NoRouteLeavesEverything ==
    [][ event'.kind = "fetchNoRoutes" =>
            /\ directions' = directions
            /\ routeSource' = routeSource
            /\ ~event'.alert
            /\ ~isLoading'
            /\ ~event'.detail.stale =>
                  /\ directions' = event'.detail.atSubmit.directions
                  /\ routeSource' = event'.detail.atSubmit.routeSource
      ]_vars

\* C20 witness: a second request for a selection whose route is on display
\* came back with no route, and list and route are still there.
C20_Witness ==
    /\ event.kind = "fetchNoRoutes"
    /\ ~event.detail.stale
    /\ directions # Null
    /\ routeSource # Null
    /\ ~isLoading

(***************************************************************************)
(* reqRigList (index.ts).  response.json() reads the body and parses it as *)
(* JSON; the parser below covers whitespace, null, true, false, unsigned   *)
(* integers, strings without escapes and arrays, which is the grammar of   *)
(* the sample bodies.                                                      *)
(***************************************************************************)
\* JavaScript undefined
Undefined == [undefined |-> TRUE]

Digits == "0" :> 0 @@ "1" :> 1 @@ "2" :> 2 @@ "3" :> 3 @@ "4" :> 4 @@
          "5" :> 5 @@ "6" :> 6 @@ "7" :> 7 @@ "8" :> 8 @@ "9" :> 9

\* JSON whitespace
IsJsonSpace(c) == c \in {" ", "\t", "\n", "\r"}

RECURSIVE SkipWhitespace(_)
SkipWhitespace(s) ==
    IF s # <<>> /\ IsJsonSpace(Head(s)) THEN SkipWhitespace(Tail(s)) ELSE s

\* a parse that failed / that gave value and left rest unread
ParseFailed == [ok |-> FALSE, value |-> Undefined, rest |-> <<>>]

Parsed(value, rest) == [ok |-> TRUE, value |-> value, rest |-> rest]

\* the text after its first n characters
Drop(s, n) == SubSeq(s, n + 1, Len(s))

\* a number: 0, or a digit 1-9 and the digits that follow
RECURSIVE ParseDigits(_, _)
ParseDigits(s, n) ==
    IF s # <<>> /\ Head(s) \in DOMAIN Digits
    THEN ParseDigits(Tail(s), 10 * n + Digits[Head(s)])
    ELSE Parsed([type |-> "number", n |-> n], s)

ParseNumber(s) ==
    IF Head(s) = "0" THEN Parsed([type |-> "number", n |-> 0], Tail(s))
    ELSE ParseDigits(s, 0)

\* a string: the characters up to the closing quote, none of them a
\* backslash or a control character
RECURSIVE ParseChars(_, _)
ParseChars(s, acc) ==
    IF s = <<>> THEN ParseFailed
    ELSE IF Head(s) = "\"" THEN Parsed([type |-> "string", chars |-> acc], Tail(s))
    ELSE IF Head(s) \in {"\\", "\n", "\t", "\r"} THEN ParseFailed
    ELSE ParseChars(Tail(s), Append(acc, Head(s)))

RECURSIVE ParseValue(_)
RECURSIVE ParseItems(_, _)
ParseValue(s) ==
    LET t == SkipWhitespace(s)
    IN  IF t = <<>> THEN ParseFailed
        ELSE IF StartsWithAt(t, 1, <<"n","u","l","l">>)
             THEN Parsed([type |-> "null"], Drop(t, 4))
        ELSE IF StartsWithAt(t, 1, <<"t","r","u","e">>)
             THEN Parsed([type |-> "boolean", b |-> TRUE], Drop(t, 4))
        ELSE IF StartsWithAt(t, 1, <<"f","a","l","s","e">>)
             THEN Parsed([type |-> "boolean", b |-> FALSE], Drop(t, 5))
        ELSE IF Head(t) \in DOMAIN Digits THEN ParseNumber(t)
        ELSE IF Head(t) = "\"" THEN ParseChars(Tail(t), <<>>)
        ELSE IF Head(t) = "["
             THEN LET u == SkipWhitespace(Tail(t))
                  IN  IF u # <<>> /\ Head(u) = "]"
                      THEN Parsed([type |-> "array", items |-> <<>>], Tail(u))
                      ELSE ParseItems(Tail(t), <<>>)
        ELSE ParseFailed

\* the items of an array after its [ or after a comma
ParseItems(s, acc) ==
    LET v == ParseValue(s)
        u == SkipWhitespace(v.rest)
    IN  IF ~v.ok \/ u = <<>> THEN ParseFailed
        ELSE IF Head(u) = ","
             THEN ParseItems(Tail(u), Append(acc, v.value))
        ELSE IF Head(u) = "]"
             THEN Parsed([type |-> "array", items |-> Append(acc, v.value)], Tail(u))
        ELSE ParseFailed

\* JSON.parse(text): a value and nothing but whitespace after it
JsonParse(text) ==
    LET v == ParseValue(text)
    IN  IF v.ok /\ SkipWhitespace(v.rest) = <<>>
        THEN [ok |-> TRUE, value |-> v.value]
        ELSE [ok |-> FALSE, value |-> Undefined]

\* sample response bodies
BodyRigNames == <<"[","\"","a","\"",",","\"","b","\"","]">>

BodyEmptyList == <<"[","]">>

BodyNumbers == <<" ","[","1",","," ","2","0","]","\n">>

BodyNull == <<"n","u","l","l">>

BodyEmpty == <<>>

BodyHtml == <<"<","h","t","m","l",">">>

BodyCutShort == <<"[","\"","a","\"",",">>

BodyLeadingZero == <<"0","1">>

Bodies ==
    { BodyRigNames, BodyEmptyList, BodyNumbers, BodyNull, BodyEmpty, BodyHtml,
      BodyCutShort, BodyLeadingZero }

\* sample status codes, either side of the 200-299 range of response.ok
Statuses == {200, 204, 299, 300, 404, 500}

\* the Response fetch resolves with
Response(status, body) ==
    [status |-> status, ok |-> (status >= 200 /\ status <= 299), body |-> body]

Urls == {[href |-> "/api/rigs"], [href |-> "/api/rigs?page=2"]}

\* promises
Pending == [state |-> "pending"]

Fulfilled(value) == [state |-> "fulfilled", value |-> value]

Rejected(reason) == [state |-> "rejected", reason |-> reason]

\* what leaves the other parts of the program alone
RigFrame == UNCHANGED <<appVars, loopVars>>

\* reqRigList(url) is called: it runs up to await fetch(url) and returns its
\* promise
ReqRigList ==
    /\ rigPc = "idle"
    /\ \E u \in Urls : url' = u
    /\ rigPc' = "awaitFetch"
    /\ returned' = Pending
    /\ UNCHANGED <<response, result, console>>
    /\ RigFrame

\* the catch block: console.error(error), then the function ends without a
\* return statement
Catch(error) ==
    /\ console' = Append(console, error)
    /\ returned' = Fulfilled(Undefined)
    /\ rigPc' = "returned"

\* fetch rejects (network failure): await throws into the catch block
FetchRejects ==
    /\ rigPc = "awaitFetch"
    /\ Catch([name |-> "TypeError", message |-> "Failed to fetch"])
    /\ UNCHANGED <<url, response, result>>
    /\ RigFrame

\* fetch resolves with a Response: the status check, then response.json()
\* is called and its promise returned without await, so that the promise of
\* the call follows it from outside the try block
FetchResolves ==
    /\ rigPc = "awaitFetch"
    /\ \E status \in Statuses, body \in Bodies :
          /\ response' = Response(status, body)
          /\ IF ~response'.ok
             THEN /\ Catch([name |-> "Error", message |-> <<"Response status: ", status>>])
                  /\ UNCHANGED result
             ELSE /\ result' = Pending
                  /\ rigPc' = "awaitJson"
                  /\ UNCHANGED <<returned, console>>
    /\ UNCHANGED url
    /\ RigFrame

\* the body has arrived and parses: result is fulfilled and the call's
\* promise with it
JsonResolves ==
    /\ rigPc = "awaitJson"
    /\ JsonParse(response.body).ok
    /\ result' = Fulfilled(JsonParse(response.body).value)
    /\ returned' = result'
    /\ rigPc' = "returned"
    /\ UNCHANGED <<url, response, console>>
    /\ RigFrame

\* the body has arrived and does not parse: result is rejected and the
\* call's promise with it
JsonRejects ==
    /\ rigPc = "awaitJson"
    /\ ~JsonParse(response.body).ok
    /\ result' = Rejected([name |-> "SyntaxError"])
    /\ returned' = result'
    /\ rigPc' = "returned"
    /\ UNCHANGED <<url, response, console>>
    /\ RigFrame

\* the connection is lost while the body is read: result is rejected and
\* the call's promise with it
BodyReadFails ==
    /\ rigPc = "awaitJson"
    /\ result' = Rejected([name |-> "TypeError"])
    /\ returned' = result'
    /\ rigPc' = "returned"
    /\ UNCHANGED <<url, response, console>>
    /\ RigFrame

RigInit ==
    /\ AppInit
    /\ geolocation = "pending"
    /\ LoopIdle
    /\ RigIdle

RigNext ==
    \/ ReqRigList
    \/ FetchRejects
    \/ FetchResolves
    \/ JsonResolves
    \/ JsonRejects
    \/ BodyReadFails

RigSpec == RigInit /\ [][RigNext]_vars

\* C21 (as claimed): when the call has settled, after a network failure of
\* the fetch or a non-success status its promise is fulfilled with undefined
\* and the error was logged; after a success status its promise is fulfilled
\* with the parsed response body.
C21_ResolvesLoggedOrParsed ==
    rigPc = "returned" =>
        /\ (response = Null \/ ~response.ok) =>
              /\ returned = Fulfilled(Undefined)
              /\ Len(console) = 1
        /\ (response # Null /\ response.ok) =>
              /\ returned.state = "fulfilled"
              /\ JsonParse(response.body).ok
              /\ returned.value = JsonParse(response.body).value

====
